---- MODULE Spec2Model ----
(***************************************************************************)
(* Patient management canister (src/src/index.ts): the patientStorage map  *)
(* and the twelve exported operations built on it.                         *)
(*                                                                         *)
(* Representation.  A JavaScript string is a sequence of one-character     *)
(* strings, so that the empty-string tests, the UUID regular expression,   *)
(* toLowerCase and includes are computed character by character.  A        *)
(* number is an integer.  An azle variant (Opt, Result) is a record with   *)
(* exactly one field, named after its tag, as in azle's variant.ts.  An    *)
(* error message built by a template literal is the tuple of its pieces:   *)
(* the literal pieces as text, the interpolated values as they are.        *)
(*                                                                         *)
(* The state is the store, the host clock and, as a history of the calls,  *)
(* whether every call so far has left the store that its return value      *)
(* describes, and the ids whose latest successful admitPatient or          *)
(* dischargePatient call was an admitPatient.                              *)
(***************************************************************************)
EXTENDS Integers, Sequences, FiniteSets, TLC

VARIABLES patientStorage, time, faithful, lastAdmitted

vars == <<patientStorage, time, faithful, lastAdmitted>>

(***************************************************************************)
(* Bounds of the model.                                                    *)
(***************************************************************************)
\* the host clock runs from 0 to MaxTime
MaxTime == 1
\* the stored patients hold at most MaxRecords medical records together
MaxRecords == 2

\* the medical records one patient holds at most where sequences with several
\* records of one id are explored
MaxSameId == 3

(***************************************************************************)
(* Strings.                                                                *)
(***************************************************************************)
Rep(c, n) == [i \in 1..n |-> c]

Digits == {"0", "1", "2", "3", "4", "5", "6", "7", "8", "9"}

\* the characters class [\da-f] accepts under the i flag
HexDigits == Digits \cup {"a", "b", "c", "d", "e", "f"} \cup {"A", "B", "C", "D", "E", "F"}

\* 8-4-4-4-12 groups of the character c
Grouped(c) ==
    Rep(c, 8) \o <<"-">> \o Rep(c, 4) \o <<"-">> \o Rep(c, 4) \o <<"-">>
        \o Rep(c, 4) \o <<"-">> \o Rep(c, 12)

\* a version-4 identifier as uuidv4() prints it: lower-case hexadecimal,
\* version nibble 4, variant nibble 8
V4(c) ==
    Rep(c, 8) \o <<"-">> \o Rep(c, 4) \o <<"-", "4">> \o Rep(c, 3) \o <<"-", "8">>
        \o Rep(c, 3) \o <<"-">> \o Rep(c, 12)

\* the identifiers uuidv4() draws from
UuidV4Outputs == {V4("1"), V4("a")}

\* the ids callers pass: empty, 36 characters in groups with a digit that is
\* not hexadecimal, an upper-case UUID that is never generated, and the
\* generated ones
Ids == {<< >>, Grouped("g"), Grouped("F")} \cup UuidV4Outputs

(***************************************************************************)
(* azle variants: Opt and Result.                                          *)
(***************************************************************************)
NULL == "null"

None == [None |-> NULL]

Some(v) == [Some |-> v]

Ok(v) == [Ok |-> v]

Err(e) == [Err |-> e]

IsSome(o) == "Some" \in DOMAIN o

IsOk(r) == "Ok" \in DOMAIN r

IsErr(r) == "Err" \in DOMAIN r

(***************************************************************************)
(* JavaScript truthiness, as the validation tests use it.                  *)
(***************************************************************************)
\* !s for a string s
NotString(s) == s = << >>

\* !n for a number n
NotNumber(n) == n = 0

\* !o for an object o: an object is always truthy
NotObject(o) == FALSE

\* { ...a, ...b }
Spread(a, b) == [k \in DOMAIN a \cup DOMAIN b |-> IF k \in DOMAIN b THEN b[k] ELSE a[k]]

(***************************************************************************)
(* Inputs.                                                                 *)
(***************************************************************************)
\* a complete record, naming the patient V4("1")
RecA ==
    [id |-> <<"r", "1">>, patientId |-> V4("1"), diagnosis |-> <<"f", "l", "u">>,
     treatment |-> <<"r", "e", "s", "t">>, date |-> 1]

\* another id, empty diagnosis and treatment, a patientId that names no patient
RecC ==
    [id |-> <<"r", "2">>, patientId |-> <<"x">>, diagnosis |-> << >>,
     treatment |-> << >>, date |-> 0]

MedicalRecords == {RecA, RecC}

\* a record with the id of RecA and another diagnosis and treatment
RecB ==
    [id |-> <<"r", "1">>, patientId |-> V4("1"), diagnosis |-> <<"c", "o", "l", "d">>,
     treatment |-> <<"t", "e", "a">>, date |-> 0]

\* the records of the calls that build sequences with several records of one id
SeveralRecords == MedicalRecords \cup {RecB}

\* the record ids callers pass: empty and the two in use
RecordIds == {<< >>, <<"r", "1">>, <<"r", "2">>}

Ann == [name |-> <<"A", "n", "n">>, age |-> 30, gender |-> <<"F">>, medicalRecords |-> << >>]

Dan == [name |-> <<"d", "A", "N">>, age |-> 41, gender |-> <<"M">>, medicalRecords |-> <<RecC>>]

\* complete, with a name that alone is longer than the store's value limit
Long == [Ann EXCEPT !.name = Rep("n", 1025)]

\* the complete payloads and one for each missing field
Payloads ==
    {Ann, Dan, Long,
     [Ann EXCEPT !.name = << >>],
     [Ann EXCEPT !.age = 0],
     [Dan EXCEPT !.gender = << >>]}

Queries == {<< >>, <<"a", "n">>, <<"N", "N">>, <<"z">>}

(***************************************************************************)
(* The record store (azle's StableBTreeMap<string, Patient>), as the       *)
(* exported functions use it: get and remove answer with an Opt, insert    *)
(* overwrites by key, values lists in key order.  The map is created with  *)
(* a key limit of MaxKeySize bytes and a value limit of MaxValueSize       *)
(* bytes: an insert beyond either stores nothing and fails, and the catch  *)
(* block around it turns the failure into the function's error.            *)
(***************************************************************************)
\* new StableBTreeMap<string, Patient>(0, 44, 1024)
MaxKeySize == 44

MaxValueSize == 1024

\* Keys and values are stored in their Candid encoding, and the limits are
\* limits of that encoding: the 44 bytes of the key limit are the encoding
\* of one generated id.
\* the bytes of an unsigned LEB128 number, for the lengths that occur
leb128Bytes(n) == IF n < 128 THEN 1 ELSE IF n < 16384 THEN 2 ELSE 3

\* a text: its length, then one byte a character
textBytes(s) == leb128Bytes(Len(s)) + Len(s)

\* an opt nat64: the presence byte, then eight bytes when present
optNat64Bytes(o) == IF IsSome(o) THEN 9 ELSE 1

\* a value's prefix: the magic "DIDL", the count of one type, the type text
keyPrefixBytes == 4 + 1 + 1 + 1

keyByteLength(key) == keyPrefixBytes + textBytes(key)

\* the type table entry of the record MedicalRecord: the record code, the
\* field count, and for each field its hashed name and its type; the hash of
\* id takes three bytes, the hashes of the other four names five
medicalRecordTypeBytes == 1 + 1 + (3 + 1) + 4 * (5 + 1)

\* the type table entry of the record Patient: the hash of id takes three
\* bytes, the hash of age four, the hashes of the other six names five
patientTypeBytes == 1 + 1 + (3 + 1) + (4 + 1) + 6 * (5 + 1)

\* a Patient value's prefix: the magic "DIDL", the count of four types
\* (Patient, opt nat64, vec MedicalRecord, MedicalRecord), their entries,
\* the count of one value and its type
valuePrefixBytes ==
    4 + 1 + patientTypeBytes + 2 + 2 + medicalRecordTypeBytes + 1 + 1

\* the bytes of a medical record: its four texts and its nat64 date
recordBytes(r) ==
    textBytes(r.id) + textBytes(r.patientId) + textBytes(r.diagnosis)
        + textBytes(r.treatment) + 8

RECURSIVE recordsBytes(_)
recordsBytes(records) ==
    IF records = << >> THEN 0
    ELSE recordBytes(Head(records)) + recordsBytes(Tail(records))

\* the bytes of a stored patient: the prefix, its three texts, its float64
\* age, its flag, its two optional times, and the count and the bytes of
\* its records
byteLength(value) ==
    valuePrefixBytes + textBytes(value.id) + textBytes(value.name) + 8
        + textBytes(value.gender) + 1 + optNat64Bytes(value.admittedAt)
        + optNat64Bytes(value.dischargedAt)
        + leb128Bytes(Len(value.medicalRecords)) + recordsBytes(value.medicalRecords)

\* the failures an insert beyond the limits raises, as `${error}` prints them
KeyError == "Error: KeyTooLarge"

InsertError == "Error: ValueTooLarge"

insert(store, key, value) ==
    [k \in DOMAIN store \cup {key} |-> IF k = key THEN value ELSE store[k]]

get(store, key) == IF key \in DOMAIN store THEN Some(store[key]) ELSE None

\* remove that empties the store
remove_everything(store, key) == [ret |-> get(store, key), store |-> << >>]

remove(store, key) ==
    [ret |-> get(store, key), store |-> [k \in DOMAIN store \ {key} |-> store[k]]]

\* ASCII order of the characters that occur in keys and names
CodeOrder ==
    <<"-", "0", "1", "2", "3", "4", "5", "6", "7", "8", "9",
      "A", "B", "C", "D", "E", "F", "G", "H", "I", "J", "K", "L", "M",
      "N", "O", "P", "Q", "R", "S", "T", "U", "V", "W", "X", "Y", "Z",
      "a", "b", "c", "d", "e", "f", "g", "h", "i", "j", "k", "l", "m",
      "n", "o", "p", "q", "r", "s", "t", "u", "v", "w", "x", "y", "z">>

\* position of each character in CodeOrder
CodeIndex ==
    [c \in {CodeOrder[i] : i \in 1..Len(CodeOrder)} |->
        CHOOSE i \in 1..Len(CodeOrder) : CodeOrder[i] = c]

Code(c) == CodeIndex[c]

\* the order of two keys in the map: the byte-wise order of their encodings,
\* in which the length of the key comes before its characters, so that the
\* shorter of two keys is the smaller one and keys of one length are in
\* ASCII order (a key the map holds has one length byte)
StrLess(a, b) ==
    \/ Len(a) < Len(b)
    \/ /\ Len(a) = Len(b)
       /\ \E i \in 1..Len(a) :
             /\ \A j \in 1..(i - 1) : a[j] = b[j]
             /\ Code(a[i]) < Code(b[i])

RECURSIVE SortKeys(_)
SortKeys(S) ==
    IF S = {} THEN << >>
    ELSE LET least == CHOOSE k \in S : \A o \in S : o = k \/ StrLess(k, o)
         IN  <<least>> \o SortKeys(S \ {least})

\* values(): the stored values in key order
values(store) ==
    LET keys == SortKeys(DOMAIN store)
    IN  [i \in 1..Len(keys) |-> store[keys[i]]]

(***************************************************************************)
(* Array and string helpers of the JavaScript runtime.                     *)
(***************************************************************************)
\* findIndex that answers with the last match, as findLastIndex does
findIndex_lastMatch(records, medicalRecordId) ==
    IF \E i \in 1..Len(records) : records[i].id = medicalRecordId
    THEN (CHOOSE i \in 1..Len(records) :
              /\ records[i].id = medicalRecordId
              /\ \A j \in (i + 1)..Len(records) : records[j].id # medicalRecordId) - 1
    ELSE -1

\* Array.prototype.findIndex with record => record.id === medicalRecordId:
\* zero-based index of the first match, -1 when there is none
findIndex(records, medicalRecordId) ==
    IF \E i \in 1..Len(records) : records[i].id = medicalRecordId
    THEN (CHOOSE i \in 1..Len(records) :
              /\ records[i].id = medicalRecordId
              /\ \A j \in 1..(i - 1) : records[j].id # medicalRecordId) - 1
    ELSE -1

\* Array.prototype.slice(start, end), zero-based, end exclusive
slice(s, start, end) == SubSeq(s, start + 1, end)

\* toLowerCase that leaves its string as it is
toLowerCase_asIs(s) == s

\* String.prototype.toLowerCase
toLowerCase(s) ==
    [i \in 1..Len(s) |->
        IF Code(s[i]) \in 12..37 THEN CodeOrder[Code(s[i]) + 26] ELSE s[i]]

\* String.prototype.includes
includes(s, sub) ==
    \E k \in 0..(Len(s) - Len(sub)) : SubSeq(s, k + 1, k + Len(sub)) = sub

\* Array.prototype.filter with
\* patient => patient.name.toLowerCase().includes(lowerCaseQuery)
RECURSIVE filter(_, _)
filter(patients, lowerCaseQuery) ==
    IF patients = << >> THEN << >>
    ELSE (IF includes(toLowerCase(Head(patients).name), lowerCaseQuery)
          THEN <<Head(patients)>>
          ELSE << >>) \o filter(Tail(patients), lowerCaseQuery)

(***************************************************************************)
(* isValidUUID: /^[\da-f]{8}-([\da-f]{4}-){3}[\da-f]{12}$/i                *)
(***************************************************************************)
\* the pattern without the letters a-f
isValidUUID_decimalOnly(id) ==
    /\ Len(id) = 36
    /\ \A i \in 1..36 :
          IF i \in {9, 14, 19, 24} THEN id[i] = "-" ELSE id[i] \in Digits

isValidUUID(id) ==
    /\ Len(id) = 36
    /\ \A i \in 1..36 :
          IF i \in {9, 14, 19, 24} THEN id[i] = "-" ELSE id[i] \in HexDigits

(***************************************************************************)
(* The exported functions.  Each returns the value it returns to the host  *)
(* (ret) and the store it leaves (store).                                  *)
(***************************************************************************)
\* try { patientStorage.insert(key, value); return Result.Ok(value) }
\* catch (error) { return Result.Err(`${prefix}${error}`) }
insertOrCatch(store, key, value, prefix) ==
    IF keyByteLength(key) > MaxKeySize
    THEN [ret |-> Err(<<prefix, KeyError>>), store |-> store]
    ELSE IF byteLength(value) > MaxValueSize
    THEN [ret |-> Err(<<prefix, InsertError>>), store |-> store]
    ELSE [ret |-> Ok(value), store |-> insert(store, key, value)]

\* addPatient that stores and returns the patient without the payload's records
addPatient_dropsRecords(store, payload, uuid) ==
    IF NotString(payload.name) \/ NotNumber(payload.age) \/ NotString(payload.gender)
    THEN [ret |-> Err(<<"Missing required fields in the patient object">>), store |-> store]
    ELSE LET newPatient ==
                 [id |-> uuid,
                  isAdmitted |-> FALSE,
                  admittedAt |-> None,
                  dischargedAt |-> None,
                  name |-> payload.name,
                  age |-> payload.age,
                  gender |-> payload.gender,
                  medicalRecords |-> << >>]
         IN  insertOrCatch(store, newPatient.id, newPatient, "Error adding patient: ")

\* addPatient that stores the patient under its name
addPatient_keyIsName(store, payload, uuid) ==
    IF NotString(payload.name) \/ NotNumber(payload.age) \/ NotString(payload.gender)
    THEN [ret |-> Err(<<"Missing required fields in the patient object">>), store |-> store]
    ELSE LET newPatient ==
                 [id |-> uuid,
                  isAdmitted |-> FALSE,
                  admittedAt |-> None,
                  dischargedAt |-> None,
                  name |-> payload.name,
                  age |-> payload.age,
                  gender |-> payload.gender,
                  medicalRecords |-> payload.medicalRecords]
         IN  insertOrCatch(store, payload.name, newPatient, "Error adding patient: ")

addPatient(store, payload, uuid) ==
    IF NotString(payload.name) \/ NotNumber(payload.age) \/ NotString(payload.gender)
    THEN [ret |-> Err(<<"Missing required fields in the patient object">>), store |-> store]
    ELSE LET patientId == uuid
             newPatient ==
                 [id |-> patientId,
                  isAdmitted |-> FALSE,
                  admittedAt |-> None,
                  dischargedAt |-> None,
                  name |-> payload.name,
                  age |-> payload.age,
                  gender |-> payload.gender,
                  medicalRecords |-> payload.medicalRecords]
         IN  insertOrCatch(store, newPatient.id, newPatient, "Error adding patient: ")

\* getPatients that leaves out the last stored patient
getPatients_dropsLast(store) ==
    [ret |-> Ok(SubSeq(values(store), 1, Len(values(store)) - 1)), store |-> store]

getPatients(store) == [ret |-> Ok(values(store)), store |-> store]

\* getPatient that takes the patient out of the store as it reads it
getPatient_removes(store, id) ==
    IF NotString(id)
    THEN [ret |-> Err(<<"Invalid ID for getting a patient.">>), store |-> store]
    ELSE LET removed == remove(store, id)
         IN  IF IsSome(removed.ret)
             THEN [ret |-> Ok(removed.ret.Some), store |-> removed.store]
             ELSE [ret |-> Err(<<"Patient with id=", id, " not found">>),
                   store |-> removed.store]

getPatient(store, id) ==
    IF NotString(id)
    THEN [ret |-> Err(<<"Invalid ID for getting a patient.">>), store |-> store]
    ELSE LET found == get(store, id)
         IN  IF IsSome(found)
             THEN [ret |-> Ok(found.Some), store |-> store]
             ELSE [ret |-> Err(<<"Patient with id=", id, " not found">>), store |-> store]

\* updatePatient that stores the payload under the id when it finds no patient
updatePatient_insertsMissing(store, id, payload) ==
    IF NotString(id)
    THEN [ret |-> Err(<<"Invalid ID for updating a patient.">>), store |-> store]
    ELSE IF NotString(payload.name) \/ NotNumber(payload.age) \/ NotString(payload.gender)
    THEN [ret |-> Err(<<"Missing required fields in the patient object">>), store |-> store]
    ELSE LET found == get(store, id)
         IN  IF IsSome(found)
             THEN LET updatedPatient == Spread(found.Some, payload)
                  IN  insertOrCatch(store, id, updatedPatient, "Error updating patient: ")
             ELSE LET created ==
                          Spread([id |-> id, isAdmitted |-> FALSE, admittedAt |-> None,
                                  dischargedAt |-> None], payload)
                  IN  insertOrCatch(store, id, created, "Error updating patient: ")

\* updatePatient that spreads the stored patient over the payload
updatePatient_keepsStored(store, id, payload) ==
    IF NotString(id)
    THEN [ret |-> Err(<<"Invalid ID for updating a patient.">>), store |-> store]
    ELSE IF NotString(payload.name) \/ NotNumber(payload.age) \/ NotString(payload.gender)
    THEN [ret |-> Err(<<"Missing required fields in the patient object">>), store |-> store]
    ELSE LET found == get(store, id)
         IN  IF IsSome(found)
             THEN LET updatedPatient == Spread(payload, found.Some)
                  IN  insertOrCatch(store, id, updatedPatient, "Error updating patient: ")
             ELSE [ret |-> Err(<<"Patient with id=", id, " does not exist">>), store |-> store]

\* updatePatient that looks the patient up before it validates the payload
updatePatient_looksUpFirst(store, id, payload) ==
    IF NotString(id)
    THEN [ret |-> Err(<<"Invalid ID for updating a patient.">>), store |-> store]
    ELSE LET found == get(store, id)
         IN  IF ~IsSome(found)
             THEN [ret |-> Err(<<"Patient with id=", id, " does not exist">>), store |-> store]
             ELSE IF NotString(payload.name) \/ NotNumber(payload.age) \/ NotString(payload.gender)
             THEN [ret |-> Err(<<"Missing required fields in the patient object">>),
                   store |-> store]
             ELSE LET updatedPatient == Spread(found.Some, payload)
                  IN  insertOrCatch(store, id, updatedPatient, "Error updating patient: ")

updatePatient(store, id, payload) ==
    IF NotString(id)
    THEN [ret |-> Err(<<"Invalid ID for updating a patient.">>), store |-> store]
    ELSE IF NotString(payload.name) \/ NotNumber(payload.age) \/ NotString(payload.gender)
    THEN [ret |-> Err(<<"Missing required fields in the patient object">>), store |-> store]
    ELSE LET found == get(store, id)
         IN  IF IsSome(found)
             THEN LET updatedPatient == Spread(found.Some, payload)
                  IN  insertOrCatch(store, id, updatedPatient, "Error updating patient: ")
             ELSE [ret |-> Err(<<"Patient with id=", id, " does not exist">>), store |-> store]

\* addMedicalRecord that puts the new record in front
addMedicalRecord_prepends(store, patientId, medicalRecord) ==
    IF NotString(patientId)
    THEN [ret |-> Err(<<"Invalid patient ID for adding a medical record.">>), store |-> store]
    ELSE LET found == get(store, patientId)
         IN  IF IsSome(found)
             THEN LET patient == found.Some
                      updatedPatient ==
                          Spread(patient,
                                 [medicalRecords |-> <<medicalRecord>> \o patient.medicalRecords])
                  IN  insertOrCatch(store, patientId, updatedPatient, "Error adding medical record: ")
             ELSE [ret |-> Err(<<"Patient with id=", patientId, " does not exist">>),
                   store |-> store]

addMedicalRecord(store, patientId, medicalRecord) ==
    IF NotString(patientId)
    THEN [ret |-> Err(<<"Invalid patient ID for adding a medical record.">>), store |-> store]
    ELSE LET found == get(store, patientId)
         IN  IF IsSome(found)
             THEN LET patient == found.Some
                      updatedPatient ==
                          Spread(patient,
                                 [medicalRecords |-> patient.medicalRecords \o <<medicalRecord>>])
                  IN  insertOrCatch(store, patientId, updatedPatient, "Error adding medical record: ")
             ELSE [ret |-> Err(<<"Patient with id=", patientId, " does not exist">>),
                   store |-> store]

\* updateMedicalRecord that replaces every record of the given id
updateMedicalRecord_replacesAll(store, patientId, medicalRecordId, updatedMedicalRecord) ==
    IF NotString(patientId) \/ NotString(medicalRecordId)
    THEN [ret |-> Err(<<"Invalid patient or medical record ID for updating a medical record.">>),
          store |-> store]
    ELSE LET found == get(store, patientId)
         IN  IF IsSome(found)
             THEN LET patient == found.Some
                      recordIndex == findIndex(patient.medicalRecords, medicalRecordId)
                  IN  IF recordIndex # -1
                      THEN LET updatedMedicalRecords ==
                                   [i \in 1..Len(patient.medicalRecords) |->
                                       IF patient.medicalRecords[i].id = medicalRecordId
                                       THEN updatedMedicalRecord
                                       ELSE patient.medicalRecords[i]]
                               updatedPatient ==
                                   Spread(patient, [medicalRecords |-> updatedMedicalRecords])
                           IN  insertOrCatch(store, patientId, updatedPatient, "Error updating medical record: ")
                      ELSE [ret |-> Err(<<"Medical record with id=", medicalRecordId,
                                          " not found for patient with id=", patientId>>),
                            store |-> store]
             ELSE [ret |-> Err(<<"Patient with id=", patientId, " does not exist">>),
                   store |-> store]

updateMedicalRecord(store, patientId, medicalRecordId, updatedMedicalRecord) ==
    IF NotString(patientId) \/ NotString(medicalRecordId)
    THEN [ret |-> Err(<<"Invalid patient or medical record ID for updating a medical record.">>),
          store |-> store]
    ELSE LET found == get(store, patientId)
         IN  IF IsSome(found)
             THEN LET patient == found.Some
                      recordIndex == findIndex(patient.medicalRecords, medicalRecordId)
                  IN  IF recordIndex # -1
                      THEN LET updatedMedicalRecords ==
                                   slice(patient.medicalRecords, 0, recordIndex)
                                       \o <<updatedMedicalRecord>>
                                       \o slice(patient.medicalRecords, recordIndex + 1,
                                                Len(patient.medicalRecords))
                               updatedPatient ==
                                   Spread(patient, [medicalRecords |-> updatedMedicalRecords])
                           IN  insertOrCatch(store, patientId, updatedPatient, "Error updating medical record: ")
                      ELSE [ret |-> Err(<<"Medical record with id=", medicalRecordId,
                                          " not found for patient with id=", patientId>>),
                            store |-> store]
             ELSE [ret |-> Err(<<"Patient with id=", patientId, " does not exist">>),
                   store |-> store]

\* deleteMedicalRecord that removes the record at the front, whatever its id
deleteMedicalRecord_removesFront(store, patientId, medicalRecordId) ==
    IF NotString(patientId) \/ NotString(medicalRecordId)
    THEN [ret |-> Err(<<"Invalid patient or medical record ID for deleting a medical record.">>),
          store |-> store]
    ELSE LET found == get(store, patientId)
         IN  IF IsSome(found)
             THEN LET patient == found.Some
                      recordIndex == findIndex(patient.medicalRecords, medicalRecordId)
                  IN  IF recordIndex # -1
                      THEN LET updatedPatient ==
                                   Spread(patient,
                                          [medicalRecords |->
                                               slice(patient.medicalRecords, 1,
                                                     Len(patient.medicalRecords))])
                           IN  insertOrCatch(store, patientId, updatedPatient, "Error deleting medical record: ")
                      ELSE [ret |-> Err(<<"Medical record with id=", medicalRecordId,
                                          " not found for patient with id=", patientId>>),
                            store |-> store]
             ELSE [ret |-> Err(<<"Patient with id=", patientId, " does not exist">>),
                   store |-> store]

deleteMedicalRecord(store, patientId, medicalRecordId) ==
    IF NotString(patientId) \/ NotString(medicalRecordId)
    THEN [ret |-> Err(<<"Invalid patient or medical record ID for deleting a medical record.">>),
          store |-> store]
    ELSE LET found == get(store, patientId)
         IN  IF IsSome(found)
             THEN LET patient == found.Some
                      recordIndex == findIndex(patient.medicalRecords, medicalRecordId)
                  IN  IF recordIndex # -1
                      THEN LET updatedMedicalRecords ==
                                   slice(patient.medicalRecords, 0, recordIndex)
                                       \o slice(patient.medicalRecords, recordIndex + 1,
                                                Len(patient.medicalRecords))
                               updatedPatient ==
                                   Spread(patient, [medicalRecords |-> updatedMedicalRecords])
                           IN  insertOrCatch(store, patientId, updatedPatient, "Error deleting medical record: ")
                      ELSE [ret |-> Err(<<"Medical record with id=", medicalRecordId,
                                          " not found for patient with id=", patientId>>),
                            store |-> store]
             ELSE [ret |-> Err(<<"Patient with id=", patientId, " does not exist">>),
                   store |-> store]

searchPatients(store, query) ==
    LET lowerCaseQuery == toLowerCase(query)
        filteredPatients == filter(values(store), lowerCaseQuery)
    IN  [ret |-> Ok(filteredPatients), store |-> store]

\* admitPatient that forgets the previous discharge
admitPatient_clearsDischargedAt(store, id, now) ==
    IF NotString(id)
    THEN [ret |-> Err(<<"Invalid ID for admitting a patient.">>), store |-> store]
    ELSE LET found == get(store, id)
         IN  IF IsSome(found)
             THEN LET patient == found.Some
                  IN  IF patient.isAdmitted
                      THEN [ret |-> Err(<<"Patient with id=", id, " is already admitted">>),
                            store |-> store]
                      ELSE LET newPatient ==
                                   Spread(patient,
                                          [isAdmitted |-> TRUE, admittedAt |-> Some(now),
                                           dischargedAt |-> None])
                           IN  insertOrCatch(store, id, newPatient, "Error admitting patient: ")
             ELSE [ret |-> Err(<<"Patient with id=", id, " not found">>), store |-> store]

\* admitPatient without the test of isAdmitted
admitPatient_admitsAgain(store, id, now) ==
    IF NotString(id)
    THEN [ret |-> Err(<<"Invalid ID for admitting a patient.">>), store |-> store]
    ELSE LET found == get(store, id)
         IN  IF IsSome(found)
             THEN LET newPatient ==
                          Spread(found.Some, [isAdmitted |-> TRUE, admittedAt |-> Some(now)])
                  IN  insertOrCatch(store, id, newPatient, "Error admitting patient: ")
             ELSE [ret |-> Err(<<"Patient with id=", id, " not found">>), store |-> store]

\* admitPatient that sets isAdmitted and leaves admittedAt as it was
admitPatient_noTimestamp(store, id, now) ==
    IF NotString(id)
    THEN [ret |-> Err(<<"Invalid ID for admitting a patient.">>), store |-> store]
    ELSE LET found == get(store, id)
         IN  IF IsSome(found)
             THEN LET patient == found.Some
                  IN  IF patient.isAdmitted
                      THEN [ret |-> Err(<<"Patient with id=", id, " is already admitted">>),
                            store |-> store]
                      ELSE LET newPatient == Spread(patient, [isAdmitted |-> TRUE])
                           IN  insertOrCatch(store, id, newPatient, "Error admitting patient: ")
             ELSE [ret |-> Err(<<"Patient with id=", id, " not found">>), store |-> store]

admitPatient(store, id, now) ==
    IF NotString(id)
    THEN [ret |-> Err(<<"Invalid ID for admitting a patient.">>), store |-> store]
    ELSE LET found == get(store, id)
         IN  IF IsSome(found)
             THEN LET patient == found.Some
                  IN  IF patient.isAdmitted
                      THEN [ret |-> Err(<<"Patient with id=", id, " is already admitted">>),
                            store |-> store]
                      ELSE LET newPatient ==
                                   Spread(patient,
                                          [isAdmitted |-> TRUE, admittedAt |-> Some(now)])
                           IN  insertOrCatch(store, id, newPatient, "Error admitting patient: ")
             ELSE [ret |-> Err(<<"Patient with id=", id, " not found">>), store |-> store]

getMedicalRecords(store, id) ==
    IF NotString(id)
    THEN [ret |-> Err(<<"Invalid ID for getting medical records.">>), store |-> store]
    ELSE LET found == get(store, id)
         IN  IF IsSome(found)
             THEN [ret |-> Ok(found.Some.medicalRecords), store |-> store]
             ELSE [ret |-> Err(<<"Patient with id=", id, " not found">>), store |-> store]

\* dischargePatient that also clears admittedAt
dischargePatient_clearsAdmittedAt(store, id, now) ==
    IF NotString(id)
    THEN [ret |-> Err(<<"Invalid ID for discharging a patient.">>), store |-> store]
    ELSE LET found == get(store, id)
         IN  IF IsSome(found)
             THEN LET patient == found.Some
                  IN  IF ~patient.isAdmitted
                      THEN [ret |-> Err(<<"Patient with id=", id, " is not currently admitted">>),
                            store |-> store]
                      ELSE LET newPatient ==
                                   Spread(patient,
                                          [isAdmitted |-> FALSE, admittedAt |-> None,
                                           dischargedAt |-> Some(now)])
                           IN  insertOrCatch(store, id, newPatient, "Error discharging patient: ")
             ELSE [ret |-> Err(<<"Patient with id=", id, " not found">>), store |-> store]

\* dischargePatient without the test of isAdmitted
dischargePatient_dischargesAgain(store, id, now) ==
    IF NotString(id)
    THEN [ret |-> Err(<<"Invalid ID for discharging a patient.">>), store |-> store]
    ELSE LET found == get(store, id)
         IN  IF IsSome(found)
             THEN LET newPatient ==
                          Spread(found.Some, [isAdmitted |-> FALSE, dischargedAt |-> Some(now)])
                  IN  insertOrCatch(store, id, newPatient, "Error discharging patient: ")
             ELSE [ret |-> Err(<<"Patient with id=", id, " not found">>), store |-> store]

dischargePatient(store, id, now) ==
    IF NotString(id)
    THEN [ret |-> Err(<<"Invalid ID for discharging a patient.">>), store |-> store]
    ELSE LET found == get(store, id)
         IN  IF IsSome(found)
             THEN LET patient == found.Some
                  IN  IF ~patient.isAdmitted
                      THEN [ret |-> Err(<<"Patient with id=", id, " is not currently admitted">>),
                            store |-> store]
                      ELSE LET newPatient ==
                                   Spread(patient,
                                          [isAdmitted |-> FALSE, dischargedAt |-> Some(now)])
                           IN  insertOrCatch(store, id, newPatient, "Error discharging patient: ")
             ELSE [ret |-> Err(<<"Patient with id=", id, " not found">>), store |-> store]

\* deletePatient that looks the patient up with get() and removes nothing
deletePatient_looksUpOnly(store, id) ==
    IF ~isValidUUID(id)
    THEN [ret |-> Err(<<"Invalid patient ID">>), store |-> store]
    ELSE [ret |-> Ok(get(store, id)), store |-> store]

\* deletePatient that validates its id as the other operations do
deletePatient_rejectsEmptyOnly(store, id) ==
    IF NotString(id)
    THEN [ret |-> Err(<<"Invalid patient ID">>), store |-> store]
    ELSE [ret |-> Ok(remove(store, id).ret), store |-> remove(store, id).store]

\* remove() answers with an Opt, an object, so the test !deletedPatient
\* never takes the "does not exist" branch
deletePatient(store, id) ==
    IF ~isValidUUID(id)
    THEN [ret |-> Err(<<"Invalid patient ID">>), store |-> store]
    ELSE LET removed == remove(store, id)
             deletedPatient == removed.ret
         IN  IF NotObject(deletedPatient)
             THEN [ret |-> Err(<<"Patient with ID ", id, " does not exist">>),
                   store |-> removed.store]
             ELSE [ret |-> Ok(deletedPatient), store |-> removed.store]

(***************************************************************************)
(* The state machine.  The host serializes calls, so every exported        *)
(* function is one atomic action: an update call leaves the store its      *)
(* function returns, a query call leaves the state as it is.  What a call  *)
(* returns to the host is the ret of its function on the current state.    *)
(***************************************************************************)
\* the number of medical records held by all stored patients together
RECURSIVE RecordsOf(_, _)
RecordsOf(store, keys) ==
    IF keys = {} THEN 0
    ELSE LET k == CHOOSE key \in keys : TRUE
         IN  Len(store[k].medicalRecords) + RecordsOf(store, keys \ {k})

TotalRecords(store) == RecordsOf(store, DOMAIN store)

\* calls that would leave more than MaxRecords medical records are not made
WithinBounds(store) == TotalRecords(store) <= MaxRecords

\* The history variable lastAdmitted holds the ids on which the latest
\* successful call among admitPatient and dischargePatient, since the
\* patient of that id was added, was an admitPatient; a successful
\* addPatient or deletePatient of the id starts it afresh.
\*
\* the store a call's return value describes: an update call that returns
\* Ok(patient) has written that patient under its id, deletePatient that
\* returns Ok(Some(patient)) has removed the key of that patient's id, and a
\* call that returns anything else has left the store as it was.  The
\* history variable faithful is true as long as every call so far has left
\* exactly that store.
recordWrite(log, ret) == IF IsOk(ret) THEN insert(log, ret.Ok.id, ret.Ok) ELSE log

recordDelete(log, ret) ==
    IF IsOk(ret) /\ IsSome(ret.Ok) THEN remove(log, ret.Ok.Some.id).store ELSE log

Init ==
    /\ patientStorage = << >>
    /\ faithful = TRUE
    /\ lastAdmitted = {}
    /\ time = 0

AddPatient(payload, uuid) ==
    LET res == addPatient(patientStorage, payload, uuid)
    IN  /\ WithinBounds(res.store)
        /\ patientStorage' = res.store
        /\ faithful' = (faithful /\ res.store = recordWrite(patientStorage, res.ret))
        /\ lastAdmitted' = IF IsOk(res.ret) THEN lastAdmitted \ {uuid} ELSE lastAdmitted
        /\ UNCHANGED time

GetPatients ==
    LET res == getPatients(patientStorage)
    IN  /\ patientStorage' = res.store
        /\ faithful' = (faithful /\ res.store = patientStorage)
        /\ UNCHANGED <<time, lastAdmitted>>

GetPatient(id) ==
    LET res == getPatient(patientStorage, id)
    IN  /\ patientStorage' = res.store
        /\ faithful' = (faithful /\ res.store = patientStorage)
        /\ UNCHANGED <<time, lastAdmitted>>

UpdatePatient(id, payload) ==
    LET res == updatePatient(patientStorage, id, payload)
    IN  /\ WithinBounds(res.store)
        /\ patientStorage' = res.store
        /\ faithful' = (faithful /\ res.store = recordWrite(patientStorage, res.ret))
        /\ UNCHANGED <<time, lastAdmitted>>

AddMedicalRecord(patientId, medicalRecord) ==
    LET res == addMedicalRecord(patientStorage, patientId, medicalRecord)
    IN  /\ WithinBounds(res.store)
        /\ patientStorage' = res.store
        /\ faithful' = (faithful /\ res.store = recordWrite(patientStorage, res.ret))
        /\ UNCHANGED <<time, lastAdmitted>>

UpdateMedicalRecord(patientId, medicalRecordId, updatedMedicalRecord) ==
    LET res == updateMedicalRecord(patientStorage, patientId,
                                   medicalRecordId, updatedMedicalRecord)
    IN  /\ patientStorage' = res.store
        /\ faithful' = (faithful /\ res.store = recordWrite(patientStorage, res.ret))
        /\ UNCHANGED <<time, lastAdmitted>>

DeleteMedicalRecord(patientId, medicalRecordId) ==
    LET res == deleteMedicalRecord(patientStorage, patientId, medicalRecordId)
    IN  /\ patientStorage' = res.store
        /\ faithful' = (faithful /\ res.store = recordWrite(patientStorage, res.ret))
        /\ UNCHANGED <<time, lastAdmitted>>

SearchPatients(query) ==
    LET res == searchPatients(patientStorage, query)
    IN  /\ patientStorage' = res.store
        /\ faithful' = (faithful /\ res.store = patientStorage)
        /\ UNCHANGED <<time, lastAdmitted>>

AdmitPatient(id) ==
    LET res == admitPatient(patientStorage, id, time)
    IN  /\ patientStorage' = res.store
        /\ faithful' = (faithful /\ res.store = recordWrite(patientStorage, res.ret))
        /\ lastAdmitted' = IF IsOk(res.ret) THEN lastAdmitted \cup {id} ELSE lastAdmitted
        /\ UNCHANGED time

GetMedicalRecords(id) ==
    LET res == getMedicalRecords(patientStorage, id)
    IN  /\ patientStorage' = res.store
        /\ faithful' = (faithful /\ res.store = patientStorage)
        /\ UNCHANGED <<time, lastAdmitted>>

DischargePatient(id) ==
    LET res == dischargePatient(patientStorage, id, time)
    IN  /\ patientStorage' = res.store
        /\ faithful' = (faithful /\ res.store = recordWrite(patientStorage, res.ret))
        /\ lastAdmitted' = IF IsOk(res.ret) THEN lastAdmitted \ {id} ELSE lastAdmitted
        /\ UNCHANGED time

DeletePatient(id) ==
    LET res == deletePatient(patientStorage, id)
    IN  /\ patientStorage' = res.store
        /\ faithful' = (faithful /\ res.store = recordDelete(patientStorage, res.ret))
        /\ lastAdmitted' = IF IsOk(res.ret) THEN lastAdmitted \ {id} ELSE lastAdmitted
        /\ UNCHANGED time

\* the host clock advances between calls
Tick ==
    /\ time < MaxTime
    /\ time' = time + 1
    /\ UNCHANGED <<patientStorage, faithful, lastAdmitted>>

\* the ids the calls of Next pass: the empty one and the generated ones.  A
\* call with any other id finds no patient and leaves the state as it is,
\* as the call with the empty id does; the properties range over all of Ids.
CallIds == {<< >>} \cup UuidV4Outputs

Next ==
    \/ \E payload \in Payloads, uuid \in UuidV4Outputs : AddPatient(payload, uuid)
    \/ GetPatients
    \/ \E id \in CallIds : GetPatient(id)
    \/ \E id \in CallIds, payload \in Payloads : UpdatePatient(id, payload)
    \/ \E id \in CallIds, r \in MedicalRecords : AddMedicalRecord(id, r)
    \/ \E id \in CallIds, rid \in RecordIds, r \in MedicalRecords : UpdateMedicalRecord(id, rid, r)
    \/ \E id \in CallIds, rid \in RecordIds : DeleteMedicalRecord(id, rid)
    \/ \E query \in Queries : SearchPatients(query)
    \/ \E id \in CallIds : AdmitPatient(id)
    \/ \E id \in CallIds : GetMedicalRecords(id)
    \/ \E id \in CallIds : DischargePatient(id)
    \/ \E id \in CallIds : DeletePatient(id)
    \/ Tick

Spec == Init /\ [][Next]_vars

(***************************************************************************)
(* The medical-record calls alone, on patients without records of their    *)
(* own at first, with records that share an id and longer sequences: the   *)
(* states where one patient holds several records of one id.               *)
(***************************************************************************)
AddMedicalRecordSeveral(patientId, medicalRecord) ==
    LET res == addMedicalRecord(patientStorage, patientId, medicalRecord)
    IN  /\ \A k \in DOMAIN res.store : Len(res.store[k].medicalRecords) <= MaxSameId
        /\ patientStorage' = res.store
        /\ faithful' = (faithful /\ res.store = recordWrite(patientStorage, res.ret))
        /\ UNCHANGED <<time, lastAdmitted>>

NextSeveral ==
    \/ \E uuid \in UuidV4Outputs : AddPatient(Ann, uuid)
    \/ \E id \in CallIds, r \in SeveralRecords : AddMedicalRecordSeveral(id, r)
    \/ \E id \in CallIds, rid \in RecordIds, r \in SeveralRecords :
          UpdateMedicalRecord(id, rid, r)
    \/ \E id \in CallIds, rid \in RecordIds : DeleteMedicalRecord(id, rid)

SpecSeveral == Init /\ [][NextSeveral]_vars

(***************************************************************************)
(* Properties.                                                             *)
(***************************************************************************)
Stored == DOMAIN patientStorage

\* what a call leaves when it fails with the message msg on the current store
Rejected(msg) == [ret |-> Err(msg), store |-> patientStorage]

\* C1: admitPatient on a stored patient that is admitted returns the
\* "already admitted" error, dischargePatient on a stored patient that is not
\* admitted returns the "not currently admitted" error, and both leave the
\* store as it was.
C1_StateConflictRejected ==
    \A id \in Stored :
        /\ patientStorage[id].isAdmitted
              => admitPatient(patientStorage, id, time)
                     = Rejected(<<"Patient with id=", id, " is already admitted">>)
        /\ ~patientStorage[id].isAdmitted
              => dischargePatient(patientStorage, id, time)
                     = Rejected(<<"Patient with id=", id, " is not currently admitted">>)

\* an admitted patient and one that is not admitted are stored
C1_Witness ==
    \E a \in Stored, d \in Stored :
        /\ patientStorage[a].isAdmitted
        /\ IsErr(admitPatient(patientStorage, a, time).ret)
        /\ ~patientStorage[d].isAdmitted
        /\ IsErr(dischargePatient(patientStorage, d, time).ret)

\* C2: a successful admitPatient stores and returns the patient with
\* isAdmitted true and admittedAt the current host time, a successful
\* dischargePatient stores and returns it with isAdmitted false and
\* dischargedAt the current host time; no other field of the patient changes.
C2_AdmitDischargeEffect ==
    \A id \in Ids :
        LET a == admitPatient(patientStorage, id, time)
            d == dischargePatient(patientStorage, id, time)
        IN  /\ IsOk(a.ret)
                  => /\ id \in Stored
                     /\ a.ret.Ok = [patientStorage[id] EXCEPT !.isAdmitted = TRUE,
                                                              !.admittedAt = Some(time)]
                     /\ get(a.store, id) = Some(a.ret.Ok)
            /\ IsOk(d.ret)
                  => /\ id \in Stored
                     /\ d.ret.Ok = [patientStorage[id] EXCEPT !.isAdmitted = FALSE,
                                                              !.dischargedAt = Some(time)]
                     /\ get(d.store, id) = Some(d.ret.Ok)

\* a patient holding a record was admitted, discharged and admitted again at
\* the current time, later than the discharge, and can be discharged now
C2_Witness ==
    \E id \in Stored :
        /\ patientStorage[id].isAdmitted
        /\ patientStorage[id].admittedAt = Some(time)
        /\ IsSome(patientStorage[id].dischargedAt)
        /\ patientStorage[id].dischargedAt.Some < time
        /\ patientStorage[id].medicalRecords # << >>
        /\ IsOk(dischargePatient(patientStorage, id, time).ret)

\* C3: in every reachable state every stored patient with isAdmitted true has
\* admittedAt present.
C3_AdmittedHasAdmittedAt ==
    \A id \in Stored : patientStorage[id].isAdmitted => IsSome(patientStorage[id].admittedAt)

\* an admitted patient whose fields were overwritten by updatePatient after
\* the admission (the payload of Dan over the patient added as Ann, or back)
C3_Witness ==
    \E id \in Stored, other \in Stored :
        /\ id # other
        /\ patientStorage[id].isAdmitted
        /\ patientStorage[id].name = Dan.name
        /\ patientStorage[other].isAdmitted
        /\ patientStorage[other].name = Ann.name
        /\ IsSome(patientStorage[other].dischargedAt)

\* C4: deletePatient with a UUID-shaped id under which no patient is stored
\* returns the error that the patient does not exist.
C4_DeleteAbsentIsError ==
    \A id \in Ids :
        isValidUUID(id) /\ id \notin Stored
            => deletePatient(patientStorage, id)
                   = Rejected(<<"Patient with ID ", id, " does not exist">>)

\* C5: deletePatient with the UUID-shaped id of a stored patient removes that
\* key and no other, changes no other entry, and returns as success the
\* value stored under the key before the call (as the Some of an Opt).
C5_DeleteRemovesAndReturns ==
    \A id \in Stored :
        isValidUUID(id)
            => LET r == deletePatient(patientStorage, id)
               IN  /\ r.ret = Ok(Some(patientStorage[id]))
                   /\ DOMAIN r.store = Stored \ {id}
                   /\ \A k \in Stored \ {id} : r.store[k] = patientStorage[k]

\* two patients are stored, so that removing one leaves the other
C5_Witness ==
    \E id \in Stored, other \in Stored :
        /\ id # other
        /\ isValidUUID(id)
        /\ patientStorage[id].isAdmitted
        /\ patientStorage[other].medicalRecords # << >>
        /\ DOMAIN deletePatient(patientStorage, id).store = {other}

\* C6: after deletePatient(id) returns success, getPatient(id) returns the
\* not-found error in the resulting state.
C6_DeletedIsNotFound ==
    \A id \in Ids :
        LET r == deletePatient(patientStorage, id)
        IN  IsOk(r.ret) => getPatient(r.store, id).ret = Err(<<"Patient with id=", id, " not found">>)

\* a patient that getPatient finds now and that deletePatient removes
C6_Witness ==
    \E id \in Stored :
        /\ IsOk(getPatient(patientStorage, id).ret)
        /\ IsOk(deletePatient(patientStorage, id).ret)
        /\ IsErr(getPatient(deletePatient(patientStorage, id).store, id).ret)

\* the shape 8-4-4-4-12 of hexadecimal digits, in either case
C7_UuidShape(id) ==
    /\ Len(id) = 36
    /\ \A i \in {9, 14, 19, 24} : id[i] = "-"
    /\ \A i \in (1..36) \ {9, 14, 19, 24} : id[i] \in HexDigits

\* C7: deletePatient with an id that is not of the UUID shape returns
\* "Invalid patient ID" and leaves the store as it was, also when the id is
\* not empty; every other operation that takes an id rejects at validation
\* the empty id and no other.
C7_ValidationAsymmetry ==
    \A id \in Ids :
        /\ ~C7_UuidShape(id) <=> deletePatient(patientStorage, id) = Rejected(<<"Invalid patient ID">>)
        /\ id = << >> <=> getPatient(patientStorage, id).ret = Err(<<"Invalid ID for getting a patient.">>)
        /\ id = << >> <=> getMedicalRecords(patientStorage, id).ret
                              = Err(<<"Invalid ID for getting medical records.">>)
        /\ id = << >> <=> admitPatient(patientStorage, id, time)
                              = Rejected(<<"Invalid ID for admitting a patient.">>)
        /\ id = << >> <=> dischargePatient(patientStorage, id, time)
                              = Rejected(<<"Invalid ID for discharging a patient.">>)
        /\ \A payload \in Payloads :
              id = << >> <=> updatePatient(patientStorage, id, payload)
                                 = Rejected(<<"Invalid ID for updating a patient.">>)
        /\ \A r \in MedicalRecords :
              id = << >> <=> addMedicalRecord(patientStorage, id, r)
                                 = Rejected(<<"Invalid patient ID for adding a medical record.">>)
        /\ \A rid \in RecordIds :
              /\ (id = << >> \/ rid = << >>)
                     <=> deleteMedicalRecord(patientStorage, id, rid)
                             = Rejected(<<"Invalid patient or medical record ID for deleting a medical record.">>)
              /\ \A r \in MedicalRecords :
                     (id = << >> \/ rid = << >>)
                         <=> updateMedicalRecord(patientStorage, id, rid, r)
                                 = Rejected(<<"Invalid patient or medical record ID for updating a medical record.">>)

\* with two patients stored, an id that is not empty and not of the UUID
\* shape is refused by deletePatient and looked up by getPatient
C7_Witness ==
    \E id \in Ids :
        /\ Cardinality(Stored) = 2
        /\ id # << >>
        /\ ~C7_UuidShape(id)
        /\ deletePatient(patientStorage, id).ret = Err(<<"Invalid patient ID">>)
        /\ getPatient(patientStorage, id).ret = Err(<<"Patient with id=", id, " not found">>)

\* C8: no two patients returned by successful addPatient calls share an id:
\* a successful addPatient never returns an id that is already a key of the
\* store, so it never overwrites a stored patient.
C8_AddNeverOverwrites ==
    \A payload \in Payloads, uuid \in UuidV4Outputs :
        LET r == addPatient(patientStorage, payload, uuid)
        IN  IsOk(r.ret) => r.ret.Ok.id \notin Stored

\* C9: if addPatient(p) returns Ok(x), getPatient(x.id) in the resulting
\* state returns Ok(x), and x has isAdmitted false, both timestamps absent and
\* the name, age, gender and medicalRecords of p.
C9_AddGetRoundTrip ==
    \A payload \in Payloads, uuid \in UuidV4Outputs :
        LET r == addPatient(patientStorage, payload, uuid)
        IN  IsOk(r.ret)
                => LET x == r.ret.Ok
                   IN  /\ getPatient(r.store, x.id).ret = Ok(x)
                       /\ x.isAdmitted = FALSE
                       /\ x.admittedAt = None
                       /\ x.dischargedAt = None
                       /\ x.name = payload.name
                       /\ x.age = payload.age
                       /\ x.gender = payload.gender
                       /\ x.medicalRecords = payload.medicalRecords

\* a patient is stored as addPatient made it from the payload of Dan, which
\* carries a medical record
C9_Witness ==
    \E id \in Stored :
        /\ addPatient(patientStorage, Dan, id).ret = Ok(patientStorage[id])
        /\ patientStorage[id].medicalRecords = <<RecC>>
        /\ getPatient(patientStorage, id).ret = Ok(patientStorage[id])

\* the number of records of s whose id is rid
RECURSIVE CountId(_, _)
CountId(s, rid) ==
    IF s = << >> THEN 0
    ELSE (IF Head(s).id = rid THEN 1 ELSE 0) + CountId(Tail(s), rid)

\* s without its element at position i
Without(s, i) == SubSeq(s, 1, i - 1) \o SubSeq(s, i + 1, Len(s))

\* C10 as stated: after a successful deleteMedicalRecord(pid, rid),
\* getMedicalRecords(pid) holds no record whose id is rid, whatever the
\* patient's sequence was.
C10_DeletedIdGone ==
    \A pid \in Ids, rid \in RecordIds :
        LET r == deleteMedicalRecord(patientStorage, pid, rid)
        IN  IsOk(r.ret) => CountId(getMedicalRecords(r.store, pid).ret.Ok, rid) = 0

\* C10 amended: after a successful deleteMedicalRecord(pid, rid),
\* getMedicalRecords(pid) is the previous sequence without its first record of
\* id rid: it holds one record of id rid fewer, and none when the previous
\* sequence held exactly one.
C10_FirstMatchDeleted ==
    \A pid \in Ids, rid \in RecordIds :
        LET r == deleteMedicalRecord(patientStorage, pid, rid)
        IN  IsOk(r.ret)
                => LET old == patientStorage[pid].medicalRecords
                       new == getMedicalRecords(r.store, pid).ret.Ok
                   IN  /\ \E i \in 1..Len(old) :
                              /\ old[i].id = rid
                              /\ \A j \in 1..(i - 1) : old[j].id # rid
                              /\ new = Without(old, i)
                       /\ CountId(new, rid) = CountId(old, rid) - 1
                       /\ CountId(old, rid) = 1 => CountId(new, rid) = 0

\* a patient holds two records of one id, and a deletion by that id succeeds
\* and leaves one of them
C10_Witness ==
    \E pid \in Stored :
        LET old == patientStorage[pid].medicalRecords
        IN  /\ Len(old) = 2
            /\ old[1].id = old[2].id
            /\ IsOk(deleteMedicalRecord(patientStorage, pid, old[1].id).ret)
            /\ Len(getMedicalRecords(deleteMedicalRecord(patientStorage, pid, old[1].id).store,
                                     pid).ret.Ok) = 1

\* C11: after a successful addMedicalRecord(pid, r), getMedicalRecords(pid)
\* returns the sequence it returned before with r appended last: one element
\* longer, r in the last position, every earlier element in its place.
C11_AddAppendsLast ==
    \A pid \in Ids, r \in MedicalRecords :
        LET res == addMedicalRecord(patientStorage, pid, r)
            before == getMedicalRecords(patientStorage, pid).ret
            after == getMedicalRecords(res.store, pid).ret
        IN  IsOk(res.ret)
                => /\ IsOk(before)
                   /\ IsOk(after)
                   /\ Len(after.Ok) = Len(before.Ok) + 1
                   /\ after.Ok[Len(after.Ok)] = r
                   /\ \A i \in 1..Len(before.Ok) : after.Ok[i] = before.Ok[i]

\* a patient holds two different records, the second as addMedicalRecord
\* appended it to the first
C11_Witness ==
    \E id \in Stored :
        LET records == patientStorage[id].medicalRecords
        IN  /\ Len(records) = 2
            /\ records[1] # records[2]
            /\ addMedicalRecord(
                   insert(patientStorage, id,
                          [patientStorage[id] EXCEPT !.medicalRecords = <<records[1]>>]),
                   id, records[2]).store = patientStorage

\* C12: a successful updateMedicalRecord(pid, rid, newRecord) keeps the
\* length of the patient's record sequence and puts newRecord in exactly one
\* position, one that held a record of id rid; every other position keeps
\* its record and no other field of the patient changes.
C12_UpdateReplacesOne ==
    \A pid \in Ids, rid \in RecordIds, newRecord \in MedicalRecords :
        LET res == updateMedicalRecord(patientStorage, pid, rid, newRecord)
        IN  IsOk(res.ret)
                => /\ pid \in Stored
                   /\ pid \in DOMAIN res.store
                   /\ LET old == patientStorage[pid]
                          new == res.store[pid]
                      IN  /\ res.ret.Ok = new
                          /\ Len(new.medicalRecords) = Len(old.medicalRecords)
                          /\ \E i \in 1..Len(old.medicalRecords) :
                                /\ old.medicalRecords[i].id = rid
                                /\ new.medicalRecords[i] = newRecord
                                /\ \A j \in 1..Len(old.medicalRecords) :
                                      j # i => new.medicalRecords[j] = old.medicalRecords[j]
                          /\ new = [old EXCEPT !.medicalRecords = new.medicalRecords]

\* an admitted patient holds two records of one id, and updateMedicalRecord
\* with that id and a different record succeeds
C12_Witness ==
    \E id \in Stored, newRecord \in MedicalRecords :
        LET patient == patientStorage[id]
        IN  /\ patient.isAdmitted
            /\ Len(patient.medicalRecords) = 2
            /\ patient.medicalRecords[1].id = patient.medicalRecords[2].id
            /\ newRecord # patient.medicalRecords[1]
            /\ IsOk(updateMedicalRecord(patientStorage, id, patient.medicalRecords[1].id,
                                        newRecord).ret)

\* a medical record with an empty id, diagnosis or treatment
InvalidRecord(r) == NotString(r.id) \/ NotString(r.diagnosis) \/ NotString(r.treatment)

\* C13: updateMedicalRecord validates the updated medical record: a call
\* whose updatedMedicalRecord has an empty id, diagnosis or treatment returns
\* an error and leaves the store as it was.
C13_InvalidRecordRejected ==
    \A pid \in Ids, rid \in RecordIds, updatedMedicalRecord \in MedicalRecords :
        InvalidRecord(updatedMedicalRecord)
            => LET res == updateMedicalRecord(patientStorage, pid, rid, updatedMedicalRecord)
               IN  /\ IsErr(res.ret)
                   /\ res.store = patientStorage

\* C14: a successful updatePatient(id, payload) stores and returns a patient
\* whose name, age, gender and medicalRecords are the payload's, the records
\* overwritten as a whole, and whose id, isAdmitted, admittedAt and
\* dischargedAt are those of the stored patient.
C14_UpdateOverwritesPayloadFields ==
    \A id \in Ids, payload \in Payloads :
        LET res == updatePatient(patientStorage, id, payload)
        IN  IsOk(res.ret)
                => /\ id \in Stored
                   /\ get(res.store, id) = Some(res.ret.Ok)
                   /\ LET old == patientStorage[id]
                          new == res.ret.Ok
                      IN  /\ new.name = payload.name
                          /\ new.age = payload.age
                          /\ new.gender = payload.gender
                          /\ new.medicalRecords = payload.medicalRecords
                          /\ new.id = old.id
                          /\ new.isAdmitted = old.isAdmitted
                          /\ new.admittedAt = old.admittedAt
                          /\ new.dischargedAt = old.dischargedAt
                          /\ DOMAIN new = DOMAIN old

\* an admitted patient holds a record that a payload does not carry, and
\* updatePatient with that payload succeeds
C14_Witness ==
    \E id \in Stored, payload \in Payloads :
        LET patient == patientStorage[id]
        IN  /\ patient.isAdmitted
            /\ patient.admittedAt # None
            /\ patient.medicalRecords # << >>
            /\ patient.medicalRecords # payload.medicalRecords
            /\ patient.name # payload.name
            /\ IsOk(updatePatient(patientStorage, id, payload).ret)

\* a payload whose name, age or gender is missing
InvalidPayload(payload) ==
    NotString(payload.name) \/ NotNumber(payload.age) \/ NotString(payload.gender)

\* C15: every operation that returns an error, whether for validation, for
\* a patient or record that is not found, for an admission state conflict
\* or for a failed insert, leaves the store as it was; and the validation
\* errors do not depend on the store: an empty id, an id that is not
\* UUID-shaped for deletePatient, or a payload with a missing field is
\* rejected with the validation message whether or not the patient exists,
\* updatePatient reporting the missing fields for every non-empty id.
C15_ErrorsLeaveStore ==
    /\ \A payload \in Payloads, uuid \in UuidV4Outputs :
          LET res == addPatient(patientStorage, payload, uuid)
          IN  /\ IsErr(res.ret) => res.store = patientStorage
              /\ InvalidPayload(payload)
                    => res = Rejected(<<"Missing required fields in the patient object">>)
    /\ \A id \in Ids, payload \in Payloads :
          LET res == updatePatient(patientStorage, id, payload)
          IN  /\ IsErr(res.ret) => res.store = patientStorage
              /\ NotString(id) => res = Rejected(<<"Invalid ID for updating a patient.">>)
              /\ ~NotString(id) /\ InvalidPayload(payload)
                    => res = Rejected(<<"Missing required fields in the patient object">>)
    /\ \A id \in Ids, r \in MedicalRecords :
          LET res == addMedicalRecord(patientStorage, id, r)
          IN  /\ IsErr(res.ret) => res.store = patientStorage
              /\ NotString(id)
                    => res = Rejected(<<"Invalid patient ID for adding a medical record.">>)
    /\ \A id \in Ids, rid \in RecordIds, r \in MedicalRecords :
          LET res == updateMedicalRecord(patientStorage, id, rid, r)
          IN  /\ IsErr(res.ret) => res.store = patientStorage
              /\ NotString(id) \/ NotString(rid)
                    => res = Rejected(<<"Invalid patient or medical record ID for updating a medical record.">>)
    /\ \A id \in Ids, rid \in RecordIds :
          LET res == deleteMedicalRecord(patientStorage, id, rid)
          IN  /\ IsErr(res.ret) => res.store = patientStorage
              /\ NotString(id) \/ NotString(rid)
                    => res = Rejected(<<"Invalid patient or medical record ID for deleting a medical record.">>)
    /\ \A id \in Ids :
          /\ LET res == admitPatient(patientStorage, id, time)
             IN  /\ IsErr(res.ret) => res.store = patientStorage
                 /\ NotString(id) => res = Rejected(<<"Invalid ID for admitting a patient.">>)
          /\ LET res == dischargePatient(patientStorage, id, time)
             IN  /\ IsErr(res.ret) => res.store = patientStorage
                 /\ NotString(id) => res = Rejected(<<"Invalid ID for discharging a patient.">>)
          /\ LET res == deletePatient(patientStorage, id)
             IN  /\ IsErr(res.ret) => res.store = patientStorage
                 /\ ~isValidUUID(id) => res = Rejected(<<"Invalid patient ID">>)

\* an admitted patient and an id that is no key: updatePatient with a payload
\* without a name reports the missing fields for both, admitPatient reports
\* the conflict, and updatePatient with a value beyond the limit fails
C15_Witness ==
    \E id \in Stored, other \in Ids \ Stored :
        /\ ~NotString(other)
        /\ patientStorage[id].isAdmitted
        /\ IsErr(admitPatient(patientStorage, id, time).ret)
        /\ IsErr(updatePatient(patientStorage, id, Long).ret)
        /\ updatePatient(patientStorage, id, [Ann EXCEPT !.name = << >>]).ret
               = Err(<<"Missing required fields in the patient object">>)
        /\ updatePatient(patientStorage, other, [Ann EXCEPT !.name = << >>]).ret
               = Err(<<"Missing required fields in the patient object">>)

\* C16: no mutating operation fails because of storage capacity: addPatient
\* with a name, an age and a gender, and updatePatient and addMedicalRecord
\* on a stored patient with valid inputs, return Ok and store the resulting
\* patient, however large it is.
C16_NoCapacityFailure ==
    /\ \A payload \in Payloads, uuid \in UuidV4Outputs :
          ~InvalidPayload(payload)
              => LET res == addPatient(patientStorage, payload, uuid)
                 IN  IsOk(res.ret) /\ get(res.store, uuid) = Some(res.ret.Ok)
    /\ \A id \in Stored, payload \in Payloads :
          ~InvalidPayload(payload)
              => LET res == updatePatient(patientStorage, id, payload)
                 IN  IsOk(res.ret) /\ get(res.store, id) = Some(res.ret.Ok)
    /\ \A id \in Stored, r \in MedicalRecords :
          LET res == addMedicalRecord(patientStorage, id, r)
          IN  IsOk(res.ret) /\ get(res.store, id) = Some(res.ret.Ok)

\* the characters c and d are the same, or the same letter in either case
SameLetter(c, d) ==
    \/ c = d
    \/ Code(c) \in 12..37 /\ Code(d) = Code(c) + 26
    \/ Code(d) \in 12..37 /\ Code(c) = Code(d) + 26

\* name contains q as a substring, case ignored
ContainsIgnoringCase(name, q) ==
    \E k \in 0..(Len(name) - Len(q)) : \A i \in 1..Len(q) : SameLetter(name[k + i], q[i])

\* C17: searchPatients(q) returns exactly the stored patients whose name
\* contains q, case ignored, each once; on the empty store it returns the
\* empty list and for the empty query every stored patient.
C17_SearchMatchesNames ==
    \A q \in Queries :
        LET res == searchPatients(patientStorage, q).ret
            matching == {k \in Stored : ContainsIgnoringCase(patientStorage[k].name, q)}
        IN  /\ IsOk(res)
            /\ Len(res.Ok) = Cardinality(matching)
            /\ {res.Ok[i] : i \in 1..Len(res.Ok)} = {patientStorage[k] : k \in matching}
            /\ Stored = {} => res.Ok = << >>
            /\ q = << >> => {res.Ok[i] : i \in 1..Len(res.Ok)}
                                = {patientStorage[k] : k \in Stored}

\* two patients are stored and the upper-case query NN finds the one whose
\* name holds nn in lower case and not the other
C17_Witness ==
    \E a \in Stored, b \in Stored :
        /\ a # b
        /\ searchPatients(patientStorage, <<"N", "N">>).ret = Ok(<<patientStorage[a]>>)
        /\ Len(searchPatients(patientStorage, << >>).ret.Ok) = 2
        /\ Len(searchPatients(patientStorage, <<"a", "n">>).ret.Ok) = 2
        /\ searchPatients(patientStorage, <<"z">>).ret = Ok(<< >>)

\* C18: getPatients, getPatient, getMedicalRecords and searchPatients never
\* change the store: the store each of them leaves is the store it was
\* called on, and a second call with the same argument, made on the store
\* the first call left, returns what the first call returned.
C18_QueriesReadOnly ==
    [](/\ LET first == getPatients(patientStorage)
          IN  /\ first.store = patientStorage
              /\ getPatients(first.store).ret = first.ret
       /\ \A id \in Ids :
             /\ LET first == getPatient(patientStorage, id)
                IN  /\ first.store = patientStorage
                    /\ getPatient(first.store, id).ret = first.ret
             /\ LET first == getMedicalRecords(patientStorage, id)
                IN  /\ first.store = patientStorage
                    /\ getMedicalRecords(first.store, id).ret = first.ret
       /\ \A query \in Queries :
             LET first == searchPatients(patientStorage, query)
             IN  /\ first.store = patientStorage
                 /\ searchPatients(first.store, query).ret = first.ret)

\* two patients are stored, one with a medical record, so that the four
\* queries have a patient, a list, a record sequence and a match to return
C18_Witness ==
    \E a \in Stored, b \in Stored :
        /\ a # b
        /\ Len(getPatients(patientStorage).ret.Ok) = 2
        /\ getPatient(patientStorage, a).ret = Ok(patientStorage[a])
        /\ IsOk(getMedicalRecords(patientStorage, a).ret)
        /\ getMedicalRecords(patientStorage, a).ret.Ok # << >>
        /\ searchPatients(patientStorage, <<"N", "N">>).ret = Ok(<<patientStorage[b]>>)

\* C19: addPatient with an empty name, an age of zero or an empty gender
\* returns 'Missing required fields in the patient object' and stores
\* nothing; with all three present it always stores a patient under the
\* generated id, and that patient has isAdmitted false and both timestamps
\* absent.
C19_AddValidatesThenStores ==
    \A payload \in Payloads, uuid \in UuidV4Outputs :
        LET res == addPatient(patientStorage, payload, uuid)
        IN  IF InvalidPayload(payload)
            THEN res = Rejected(<<"Missing required fields in the patient object">>)
            ELSE /\ IsOk(res.ret)
                 /\ get(res.store, uuid) = Some(res.ret.Ok)
                 /\ res.ret.Ok.isAdmitted = FALSE
                 /\ res.ret.Ok.admittedAt = None
                 /\ res.ret.Ok.dischargedAt = None

\* C20: in every reachable state getPatients() returns exactly the stored
\* patients, one entry for each key; and the store is what the calls have
\* returned as written: every id that a successful addPatient created and
\* deletePatient has not since returned as removed is a key, holding the
\* value the last successful update call returned for it, and there is no
\* other key.
C20_GetPatientsListsStore ==
    LET res == getPatients(patientStorage).ret
    IN  /\ faithful
        /\ IsOk(res)
        /\ Len(res.Ok) = Cardinality(Stored)
        /\ \A k \in Stored :
              Cardinality({i \in 1..Len(res.Ok) : res.Ok[i] = patientStorage[k]}) = 1
        /\ \A i \in 1..Len(res.Ok) : \E k \in Stored : res.Ok[i] = patientStorage[k]

\* two patients are listed, one of them changed since addPatient created it:
\* admitted, and holding a record that no payload carries
C20_Witness ==
    /\ Len(getPatients(patientStorage).ret.Ok) = 2
    /\ \E i \in 1..2 :
          LET patient == getPatients(patientStorage).ret.Ok[i]
          IN  /\ patient.isAdmitted
              /\ patient.medicalRecords = <<RecA>>
              /\ get(patientStorage, patient.id) = Some(patient)

\* C21: for a stored patient the successful admitPatient and dischargePatient
\* calls alternate, beginning with an admitPatient: a call of admitPatient
\* succeeds only when the latest successful one of the two on that patient
\* was not an admitPatient, a call of dischargePatient only when it was, and
\* a stored patient that was never admitted or was last discharged can be
\* admitted.
C21_AdmitDischargeAlternate ==
    \A id \in Ids :
        /\ IsOk(admitPatient(patientStorage, id, time).ret) => id \notin lastAdmitted
        /\ IsOk(dischargePatient(patientStorage, id, time).ret) => id \in lastAdmitted
        /\ id \in Stored /\ id \notin lastAdmitted
              => IsOk(admitPatient(patientStorage, id, time).ret)

\* a patient that was admitted, discharged and admitted again, so that a
\* discharge is the call that can succeed next
C21_Witness ==
    \E id \in Stored :
        /\ id \in lastAdmitted
        /\ patientStorage[id].dischargedAt # None
        /\ IsOk(dischargePatient(patientStorage, id, time).ret)
        /\ IsErr(admitPatient(patientStorage, id, time).ret)

\* C22: when a patient's medicalRecords holds several records of one id,
\* updateMedicalRecord and deleteMedicalRecord with that id succeed and
\* affect only the first of them in sequence order: the update puts the new
\* record in its position, the delete takes it out, and every other record,
\* the later ones of that id among them, stays as it was and in the same
\* order.
C22_FirstOfSeveral ==
    \A pid \in Stored, rid \in RecordIds :
        LET records == patientStorage[pid].medicalRecords
        IN  CountId(records, rid) >= 2
                => LET first == CHOOSE i \in 1..Len(records) :
                                    /\ records[i].id = rid
                                    /\ \A j \in 1..(i - 1) : records[j].id # rid
                       del == deleteMedicalRecord(patientStorage, pid, rid)
                   IN  /\ IsOk(del.ret)
                       /\ getMedicalRecords(del.store, pid).ret = Ok(Without(records, first))
                       /\ \A i \in (first + 1)..Len(records) :
                             del.ret.Ok.medicalRecords[i - 1] = records[i]
                       /\ \A newRecord \in SeveralRecords :
                             LET upd == updateMedicalRecord(patientStorage, pid, rid, newRecord)
                             IN  /\ IsOk(upd.ret)
                                 /\ getMedicalRecords(upd.store, pid).ret
                                        = Ok([records EXCEPT ![first] = newRecord])
                                 /\ \A i \in (first + 1)..Len(records) :
                                       upd.ret.Ok.medicalRecords[i] = records[i]

\* a patient holds three records of one id, the two later ones different
\* from each other and the last one equal to the first: a delete with that
\* id leaves the two later ones in their order, which is neither what taking
\* out the second nor what taking out the third leaves, and an update with
\* another record changes the first position only
C22_Witness ==
    \E pid \in Stored, newRecord \in SeveralRecords :
        LET records == patientStorage[pid].medicalRecords
            rid == records[1].id
        IN  /\ Len(records) = 3
            /\ records[2].id = rid
            /\ records[3].id = rid
            /\ records[2] # records[3]
            /\ records[3] = records[1]
            /\ newRecord.id # rid
            /\ getMedicalRecords(deleteMedicalRecord(patientStorage, pid, rid).store, pid).ret
                   = Ok(<<records[2], records[3]>>)
            /\ <<records[2], records[3]>> # Without(records, 2)
            /\ <<records[2], records[3]>> # Without(records, 3)
            /\ getMedicalRecords(
                   updateMedicalRecord(patientStorage, pid, rid, newRecord).store,
                   pid).ret = Ok(<<newRecord, records[2], records[3]>>)

\* C23: in every reachable state each stored patient's id is the key it is
\* stored under, and no operation changes the id of a stored patient: what
\* updatePatient stores for a payload, which has no id to supply, keeps it.
C23_IdIsKey ==
    /\ \A k \in Stored : patientStorage[k].id = k
    /\ \A id \in Stored, payload \in Payloads :
          LET res == updatePatient(patientStorage, id, payload)
          IN  /\ "id" \notin DOMAIN payload
              /\ IsOk(res.ret) => res.ret.Ok.id = id /\ res.store[id].id = patientStorage[id].id

\* two patients are stored, one of them admitted and holding a record, and
\* updatePatient on it succeeds
C23_Witness ==
    \E a \in Stored, b \in Stored :
        /\ a # b
        /\ patientStorage[a].id = a
        /\ patientStorage[b].id = b
        /\ patientStorage[a].isAdmitted
        /\ patientStorage[a].medicalRecords # << >>
        /\ IsOk(updatePatient(patientStorage, a, Ann).ret)

\* the store after agrees with the current store on every key but id
OthersKept(id, after) ==
    \A k \in (Stored \cup DOMAIN after) \ {id} : get(after, k) = get(patientStorage, k)

\* C24: every operation that takes a patient id changes at most the entry
\* stored under that id: updatePatient, admitPatient, dischargePatient,
\* deletePatient, addMedicalRecord, updateMedicalRecord and
\* deleteMedicalRecord leave every other key and its value as they were.
C24_OtherEntriesKept ==
    [](\A id \in Ids :
          /\ \A payload \in Payloads :
                OthersKept(id, updatePatient(patientStorage, id, payload).store)
          /\ OthersKept(id, admitPatient(patientStorage, id, time).store)
          /\ OthersKept(id, dischargePatient(patientStorage, id, time).store)
          /\ OthersKept(id, deletePatient(patientStorage, id).store)
          /\ \A r \in MedicalRecords :
                /\ OthersKept(id, addMedicalRecord(patientStorage, id, r).store)
                /\ \A rid \in RecordIds :
                      OthersKept(id, updateMedicalRecord(patientStorage, id, rid, r).store)
          /\ \A rid \in RecordIds :
                OthersKept(id, deleteMedicalRecord(patientStorage, id, rid).store))

\* two patients are stored, the other one admitted and holding a record, and
\* the calls on the one change or remove its entry
C24_Witness ==
    \E a \in Stored, b \in Stored :
        /\ a # b
        /\ patientStorage[b].isAdmitted
        /\ patientStorage[b].medicalRecords # << >>
        /\ patientStorage[a].medicalRecords # << >>
        /\ a \notin DOMAIN deletePatient(patientStorage, a).store
        /\ IsOk(admitPatient(patientStorage, a, time).ret)
        /\ IsOk(updatePatient(patientStorage, a, Ann).ret)
        /\ \E rid \in RecordIds : IsOk(deleteMedicalRecord(patientStorage, a, rid).ret)

\* what a call on the id does when no patient is stored under it: it fails
\* and leaves the store as it was
FailsUnchanged(res) == IsErr(res.ret) /\ res.store = patientStorage

\* C25: only addPatient adds a key and only deletePatient removes one.
\* updatePatient, admitPatient, dischargePatient and the medical-record
\* operations on an id that is not stored return an error and create no
\* entry, so no call on the id of a deleted patient brings it back; and a
\* step that adds a key is a successful addPatient, a step that removes one
\* is a deletePatient of that key.
C25_OnlyAddAndDelete ==
    /\ [](\A id \in Ids \ Stored :
             /\ \A payload \in Payloads :
                   FailsUnchanged(updatePatient(patientStorage, id, payload))
             /\ FailsUnchanged(admitPatient(patientStorage, id, time))
             /\ FailsUnchanged(dischargePatient(patientStorage, id, time))
             /\ IsErr(getMedicalRecords(patientStorage, id).ret)
             /\ \A r \in MedicalRecords :
                   /\ FailsUnchanged(addMedicalRecord(patientStorage, id, r))
                   /\ \A rid \in RecordIds :
                         FailsUnchanged(updateMedicalRecord(patientStorage, id, rid, r))
             /\ \A rid \in RecordIds :
                   FailsUnchanged(deleteMedicalRecord(patientStorage, id, rid)))
    /\ [][/\ \A k \in DOMAIN patientStorage' \ DOMAIN patientStorage :
                \E payload \in Payloads :
                    LET res == addPatient(patientStorage, payload, k)
                    IN  IsOk(res.ret) /\ res.store = patientStorage'
          /\ \A k \in DOMAIN patientStorage \ DOMAIN patientStorage' :
                deletePatient(patientStorage, k).store = patientStorage']_vars

\* one patient is stored and a generated id is not: the calls on the absent
\* id fail, addPatient can add it and deletePatient removes the stored one
C25_Witness ==
    \E a \in Stored, b \in UuidV4Outputs \ Stored :
        /\ time > 0
        /\ IsErr(updatePatient(patientStorage, b, Ann).ret)
        /\ IsErr(admitPatient(patientStorage, b, time).ret)
        /\ IsErr(addMedicalRecord(patientStorage, b, RecA).ret)
        /\ b \in DOMAIN addPatient(patientStorage, Ann, b).store
        /\ a \notin DOMAIN deletePatient(patientStorage, a).store

\* C26: every medical record held in a stored patient's medicalRecords has
\* the patientId of the patient that holds it, however it was supplied:
\* through addPatient, updatePatient, addMedicalRecord or updateMedicalRecord.
C26_RecordsNameHolder ==
    \A k \in Stored :
        \A i \in 1..Len(patientStorage[k].medicalRecords) :
            patientStorage[k].medicalRecords[i].patientId = patientStorage[k].id

\* C27: a stored patient with dischargedAt present has admittedAt present;
\* when the patient is not admitted its admittedAt is not later than its
\* dischargedAt (the clock never goes backwards); and while the patient is
\* admitted again its dischargedAt stays the time of the previous discharge:
\* no step that leaves the patient admitted changes it, and it is not later
\* than the new admittedAt.
C27_StayTimestamps ==
    /\ [](\A k \in Stored :
             LET patient == patientStorage[k]
             IN  IsSome(patient.dischargedAt)
                    => /\ IsSome(patient.admittedAt)
                       /\ ~patient.isAdmitted
                             => patient.admittedAt.Some <= patient.dischargedAt.Some
                       /\ patient.isAdmitted
                             => patient.dischargedAt.Some <= patient.admittedAt.Some)
    /\ [][\A k \in DOMAIN patientStorage \cap DOMAIN patientStorage' :
             patientStorage'[k].isAdmitted
                => patientStorage'[k].dischargedAt = patientStorage[k].dischargedAt]_vars

\* one patient admitted, discharged and admitted again later, another one
\* admitted and discharged later
C27_Witness ==
    \E a \in Stored, b \in Stored :
        /\ patientStorage[a].isAdmitted
        /\ IsSome(patientStorage[a].dischargedAt)
        /\ patientStorage[a].dischargedAt.Some < patientStorage[a].admittedAt.Some
        /\ ~patientStorage[b].isAdmitted
        /\ IsSome(patientStorage[b].dischargedAt)
        /\ patientStorage[b].admittedAt.Some < patientStorage[b].dischargedAt.Some

\* C28: every stored key is an id the identifier generator produced and has
\* the UUID shape deletePatient requires, so deletePatient called with a
\* stored patient's id passes the validation, removes the patient and
\* returns it.
C28_StoredIsDeletable ==
    \A k \in Stored :
        /\ k \in UuidV4Outputs
        /\ isValidUUID(k)
        /\ LET res == deletePatient(patientStorage, k)
           IN  /\ res.ret = Ok(Some(patientStorage[k]))
               /\ DOMAIN res.store = Stored \ {k}

\* both generated ids are stored, one of them with letters among its digits
C28_Witness ==
    /\ Stored = UuidV4Outputs
    /\ \E k \in Stored : \E i \in 1..Len(k) : k[i] \notin Digits \cup {"-"}
    /\ \A k \in Stored : IsOk(deletePatient(patientStorage, k).ret)

====
